---- MODULE Spec2Model ----
(***************************************************************************)
(* Model of the media-wall response reducer                                *)
(* (src/app/reducers/api-media-wall-response.ts).                          *)
(*                                                                         *)
(* The reducer is a pure function (State, Action) -> State; it is modelled *)
(* as the operator `reducer`, one operator per case of its switch, and one *)
(* action per action type dispatching it on the store's current state.     *)
(* The filter helpers it imports from '../models' are modelled from their  *)
(* documented contract.                                                    *)
(***************************************************************************)
EXTENDS Integers, Sequences, FiniteSets, TLC

(* ---- bounds of the model ---- *)
MaxStatuses == 1      \* longest `statuses` payload of one API response
MaxEntities == 2      \* pagination is dispatched while entities fits in this
MaxHidden == 2        \* HideFeed is dispatched while hiddenFeedId is shorter
MaxBlocked == 2       \* BlockUser is dispatched while blockedUser is shorter

(* ---- the feeds the API can return (ApiResponseResult) ---- *)
\* id: id_str of the post, acct: its author, profane: whether the lexical
\* profanity check matches it.
Feed(i, a, p) == [id |-> i, acct |-> a, profane |-> p]

ApiResponseResult == { Feed("1", "a", TRUE), Feed("2", "b", FALSE) }

\* payloads of the moderation actions.  hiddenFeedId and blockedUser are both
\* string[], so every string can be dispatched as an id and as an account:
\* "1" is the id of a feed and the name of no account, "b" is the account of
\* a feed and the id of none.
Strings == {"1", "b"}

RECURSIVE SeqsUpTo(_, _)
SeqsUpTo(S, n) ==
    IF n = 0 THEN { <<>> }
    ELSE LET shorter == SeqsUpTo(S, n - 1)
         IN  shorter \cup { Append(q, x) : q \in { r \in shorter : Len(r) = n - 1 }, x \in S }

Range(q) == { q[i] : i \in 1..Len(q) }

Ids(feeds) == { feeds[i].id : i \in 1..Len(feeds) }

(* ---- helpers imported from '../models' ---- *)
Contains(q, x) == \E i \in 1..Len(q) : q[i] = x

RECURSIVE FilterSeq(_, _)
accountExclusion(feeds, blockedAccounts) ==
    SelectSeq(feeds, LAMBDA f : ~Contains(blockedAccounts, f.acct))

profanityFilter(feeds) == SelectSeq(feeds, LAMBDA f : ~f.profane)

FilterSeq(feeds, seen) ==
    IF feeds = <<>> THEN <<>>
    ELSE IF Head(feeds).id \in seen THEN FilterSeq(Tail(feeds), seen)
         ELSE <<Head(feeds)>> \o FilterSeq(Tail(feeds), seen \cup {Head(feeds).id})

removeDuplicateCheck(feeds) == FilterSeq(feeds, {})

hideFeed(feeds, id) == SelectSeq(feeds, LAMBDA f : f.id # id)

RECURSIVE ReAdd(_, _, _, _)
\* walks allEntities in order from position k and appends to acc every feed
\* that is wanted and is not yet in acc
ReAdd(allEntities, acc, wanted, k) ==
    IF k > Len(allEntities) THEN acc
    ELSE LET f == allEntities[k]
         IN  IF f \in wanted /\ ~Contains(acc, f)
             THEN ReAdd(allEntities, Append(acc, f), wanted, k + 1)
             ELSE ReAdd(allEntities, acc, wanted, k + 1)

showFeed(allEntities, currentFiltered, id) ==
    ReAdd(allEntities, currentFiltered, { f \in Range(allEntities) : f.id = id }, 1)

accountInclusion(allEntities, currentFiltered, accountId) ==
    ReAdd(allEntities, currentFiltered, { f \in Range(allEntities) : f.acct = accountId }, 1)

removeId(ids, id) == SelectSeq(ids, LAMBDA x : x # id)

(* ---- State and initialState ---- *)
initialState ==
    [ entities |-> <<>>,
      filteredEntities |-> <<>>,
      hiddenFeedId |-> <<>>,
      blockedUser |-> <<>>,
      profanityCheck |-> FALSE,
      removeDuplicate |-> FALSE ]

(* ---- the action types ---- *)
WALL_SEARCH_COMPLETE_SUCCESS == "WALL_SEARCH_COMPLETE_SUCCESS"
WALL_SEARCH_COMPLETE_FAIL == "WALL_SEARCH_COMPLETE_FAIL"
WALL_PAGINATION_COMPLETE_SUCCESS == "WALL_PAGINATION_COMPLETE_SUCCESS"
WALL_PAGINATION_COMPLETE_FAIL == "WALL_PAGINATION_COMPLETE_FAIL"
WALL_HIDE_FEED == "WALL_HIDE_FEED"
WALL_SHOW_FEED == "WALL_SHOW_FEED"
WALL_BLOCK_USER == "WALL_BLOCK_USER"
WALL_UNBLOCK_USER == "WALL_UNBLOCK_USER"
WALL_PROFANITY_CHANGE_ACTION == "WALL_PROFANITY_CHANGE_ACTION"
WALL_REMOVE_DUPLICATE_CHANGE_ACTION == "WALL_REMOVE_DUPLICATE_CHANGE_ACTION"
OTHER_ACTION == "OTHER_ACTION"   \* any type the switch has no case for

Action(t, p) == [type |-> t, payload |-> p]

(* ---- the cases of the reducer ---- *)
\* a search that forgets the profanity flag
SearchCompleteSuccessNoProfanity(s, statuses) ==
    LET excluded == accountExclusion(statuses, s.blockedUser)
        newFeeds == IF s.removeDuplicate THEN removeDuplicateCheck(excluded) ELSE excluded
    IN  [s EXCEPT !.entities = statuses, !.filteredEntities = newFeeds]

SearchCompleteSuccess(s, statuses) ==
    LET excluded == accountExclusion(statuses, s.blockedUser)
        clean == IF s.profanityCheck THEN profanityFilter(excluded) ELSE excluded
        newFeeds == IF s.removeDuplicate THEN removeDuplicateCheck(clean) ELSE clean
    IN  [s EXCEPT !.entities = statuses, !.filteredEntities = newFeeds]

\* a failed search that falls back to the initial state
SearchCompleteFailResets(s) == initialState

SearchCompleteFail(s) == s

\* a pagination that puts the new page after the old feeds
PaginationCompleteSuccessAppends(s, statuses) ==
    LET excluded == accountExclusion(statuses, s.blockedUser)
        newFeeds == IF s.profanityCheck THEN profanityFilter(statuses) ELSE excluded
        combined == s.filteredEntities \o newFeeds
        filteredEntities == IF s.removeDuplicate THEN removeDuplicateCheck(combined)
                            ELSE combined
    IN  [s EXCEPT !.entities = s.entities \o statuses,
                  !.filteredEntities = filteredEntities]

\* a pagination that does not record the raw page in entities
PaginationCompleteSuccessDropsRaw(s, statuses) ==
    LET excluded == accountExclusion(statuses, s.blockedUser)
        newFeeds == IF s.profanityCheck THEN profanityFilter(statuses) ELSE excluded
        combined == newFeeds \o s.filteredEntities
        filteredEntities == IF s.removeDuplicate THEN removeDuplicateCheck(combined)
                            ELSE combined
    IN  [s EXCEPT !.filteredEntities = filteredEntities]

\* a pagination that filters profanity from the page without the blocked accounts
PaginationCompleteSuccessKeepsExclusion(s, statuses) ==
    LET excluded == accountExclusion(statuses, s.blockedUser)
        newFeeds == IF s.profanityCheck THEN profanityFilter(excluded) ELSE excluded
        combined == newFeeds \o s.filteredEntities
        filteredEntities == IF s.removeDuplicate THEN removeDuplicateCheck(combined)
                            ELSE combined
    IN  [s EXCEPT !.entities = statuses \o s.entities,
                  !.filteredEntities = filteredEntities]

PaginationCompleteSuccess(s, statuses) ==
    LET excluded == accountExclusion(statuses, s.blockedUser)
        newFeeds == IF s.profanityCheck THEN profanityFilter(statuses) ELSE excluded
        combined == newFeeds \o s.filteredEntities
        filteredEntities == IF s.removeDuplicate THEN removeDuplicateCheck(combined)
                            ELSE combined
    IN  [s EXCEPT !.entities = statuses \o s.entities,
                  !.filteredEntities = filteredEntities]

PaginationCompleteFail(s) == s

\* a hide that records an id once only
HideFeedUnique(s, id) ==
    [s EXCEPT !.filteredEntities = hideFeed(s.filteredEntities, id),
              !.hiddenFeedId = IF Contains(s.hiddenFeedId, id) THEN s.hiddenFeedId
                               ELSE Append(s.hiddenFeedId, id)]

\* a hide that ignores an id that is not on the wall
HideFeedSkipsUnknown(s, id) ==
    IF id \in Ids(s.filteredEntities)
    THEN [s EXCEPT !.filteredEntities = hideFeed(s.filteredEntities, id),
                   !.hiddenFeedId = Append(s.hiddenFeedId, id)]
    ELSE s

HideFeed(s, id) ==
    [s EXCEPT !.filteredEntities = hideFeed(s.filteredEntities, id),
              !.hiddenFeedId = Append(s.hiddenFeedId, id)]

\* a show that leaves the id in hiddenFeedId
ShowFeedKeepsHidden(s, id) ==
    [s EXCEPT !.filteredEntities = showFeed(s.entities, s.filteredEntities, id)]

ShowFeed(s, id) ==
    [s EXCEPT !.filteredEntities = showFeed(s.entities, s.filteredEntities, id),
              !.hiddenFeedId = removeId(s.hiddenFeedId, id)]

\* a block that excludes the feeds of the new user only
BlockUserOnlyNew(s, user) ==
    [s EXCEPT !.filteredEntities = accountExclusion(s.filteredEntities, <<user>>),
              !.blockedUser = Append(s.blockedUser, user)]

BlockUser(s, user) ==
    LET blockedUser == Append(s.blockedUser, user)
    IN  [s EXCEPT !.filteredEntities = accountExclusion(s.filteredEntities, blockedUser),
                  !.blockedUser = blockedUser]

\* an unblock that takes the user out of blockedUser
UnblockUserFromBlocked(s, user) ==
    [s EXCEPT !.filteredEntities = accountInclusion(s.entities, s.filteredEntities, user),
              !.blockedUser = removeId(s.blockedUser, user)]

\* an unblock that leaves blockedUser as it is
UnblockUserKeepsBlocked(s, user) ==
    [s EXCEPT !.filteredEntities = accountInclusion(s.entities, s.filteredEntities, user)]

UnblockUser(s, user) ==
    [s EXCEPT !.filteredEntities = accountInclusion(s.entities, s.filteredEntities, user),
              !.blockedUser = removeId(s.hiddenFeedId, user)]

\* a toggle that shows the raw entities again when the filter is switched off
ProfanityChangeRestoresWhenOff(s, profanityCheck) ==
    [s EXCEPT !.filteredEntities = IF profanityCheck THEN profanityFilter(s.filteredEntities)
                                   ELSE s.entities,
              !.profanityCheck = profanityCheck]

ProfanityChange(s, profanityCheck) ==
    [s EXCEPT !.filteredEntities = profanityFilter(s.filteredEntities),
              !.profanityCheck = profanityCheck]

\* a toggle that stores the flag and leaves the feeds as they are
RemoveDuplicateChangeOnlyFlag(s, removeDuplicate) ==
    [s EXCEPT !.removeDuplicate = removeDuplicate]

\* a toggle that stores its payload in the other flag
RemoveDuplicateChangeWrongFlag(s, removeDuplicate) ==
    [s EXCEPT !.filteredEntities = removeDuplicateCheck(s.filteredEntities),
              !.profanityCheck = removeDuplicate]

\* a toggle that filters only when the flag is switched on
RemoveDuplicateChangeOnlyWhenOn(s, removeDuplicate) ==
    [s EXCEPT !.filteredEntities = IF removeDuplicate
                                   THEN removeDuplicateCheck(s.filteredEntities)
                                   ELSE s.filteredEntities,
              !.removeDuplicate = removeDuplicate]

RemoveDuplicateChange(s, removeDuplicate) ==
    [s EXCEPT !.filteredEntities = removeDuplicateCheck(s.filteredEntities),
              !.removeDuplicate = removeDuplicate]

DefaultCase(s) == s

reducer(s, a) ==
    CASE a.type = WALL_SEARCH_COMPLETE_SUCCESS -> SearchCompleteSuccess(s, a.payload)
      [] a.type = WALL_SEARCH_COMPLETE_FAIL -> SearchCompleteFail(s)
      [] a.type = WALL_PAGINATION_COMPLETE_SUCCESS -> PaginationCompleteSuccess(s, a.payload)
      [] a.type = WALL_PAGINATION_COMPLETE_FAIL -> PaginationCompleteFail(s)
      [] a.type = WALL_HIDE_FEED -> HideFeed(s, a.payload)
      [] a.type = WALL_SHOW_FEED -> ShowFeed(s, a.payload)
      [] a.type = WALL_BLOCK_USER -> BlockUser(s, a.payload)
      [] a.type = WALL_UNBLOCK_USER -> UnblockUser(s, a.payload)
      [] a.type = WALL_PROFANITY_CHANGE_ACTION -> ProfanityChange(s, a.payload)
      [] a.type = WALL_REMOVE_DUPLICATE_CHANGE_ACTION -> RemoveDuplicateChange(s, a.payload)
      [] OTHER -> DefaultCase(s)

(* ---- the store ---- *)
VARIABLES
    state,        \* the State the store holds
    lastAction,   \* the action dispatched last
    prevState,    \* the State that action was reduced from
    pairStart     \* <<s>> when the last two actions were HideFeed(x), ShowFeed(x)
                  \* or BlockUser(x), UnblockUser(x), or two ProfanityToggle,
                  \* or two DuplicateToggle,
                  \* dispatched on state s; <<>> otherwise

vars == <<state, lastAction, prevState, pairStart>>

IsPair(first, second) ==
    \/ /\ \/ first.type = WALL_HIDE_FEED /\ second.type = WALL_SHOW_FEED
          \/ first.type = WALL_BLOCK_USER /\ second.type = WALL_UNBLOCK_USER
       /\ first.payload = second.payload
    \/ /\ first.type = WALL_PROFANITY_CHANGE_ACTION
       /\ second.type = WALL_PROFANITY_CHANGE_ACTION
    \/ /\ first.type = WALL_REMOVE_DUPLICATE_CHANGE_ACTION
       /\ second.type = WALL_REMOVE_DUPLICATE_CHANGE_ACTION

Dispatch(a) ==
    /\ state' = reducer(state, a)
    /\ lastAction' = a
    /\ prevState' = state
    /\ pairStart' = IF IsPair(lastAction, a) THEN <<prevState>> ELSE <<>>

Init ==
    /\ state = initialState
    /\ lastAction = Action("@@INIT", <<>>)
    /\ prevState = initialState
    /\ pairStart = <<>>

Statuses == SeqsUpTo(ApiResponseResult, MaxStatuses)

WallSearchCompleteSuccess ==
    \E statuses \in Statuses : Dispatch(Action(WALL_SEARCH_COMPLETE_SUCCESS, statuses))

WallSearchCompleteFail == Dispatch(Action(WALL_SEARCH_COMPLETE_FAIL, <<>>))

WallPaginationCompleteSuccess ==
    \E statuses \in Statuses :
        /\ Len(state.entities) + Len(statuses) <= MaxEntities
        /\ Dispatch(Action(WALL_PAGINATION_COMPLETE_SUCCESS, statuses))

WallPaginationCompleteFail == Dispatch(Action(WALL_PAGINATION_COMPLETE_FAIL, <<>>))

WallHideFeed ==
    \E id \in Strings :
        /\ Len(state.hiddenFeedId) < MaxHidden
        /\ Dispatch(Action(WALL_HIDE_FEED, id))

WallShowFeed == \E id \in Strings : Dispatch(Action(WALL_SHOW_FEED, id))

WallBlockUser ==
    \E user \in Strings :
        /\ Len(state.blockedUser) < MaxBlocked
        /\ Dispatch(Action(WALL_BLOCK_USER, user))

WallUnblockUser == \E user \in Strings : Dispatch(Action(WALL_UNBLOCK_USER, user))

WallProfanityChange ==
    \E flag \in BOOLEAN : Dispatch(Action(WALL_PROFANITY_CHANGE_ACTION, flag))

WallRemoveDuplicateChange ==
    \E flag \in BOOLEAN : Dispatch(Action(WALL_REMOVE_DUPLICATE_CHANGE_ACTION, flag))

OtherAction == Dispatch(Action(OTHER_ACTION, <<>>))

Next ==
    \/ WallSearchCompleteSuccess
    \/ WallSearchCompleteFail
    \/ WallPaginationCompleteSuccess
    \/ WallPaginationCompleteFail
    \/ WallHideFeed
    \/ WallShowFeed
    \/ WallBlockUser
    \/ WallUnblockUser
    \/ WallProfanityChange
    \/ WallRemoveDuplicateChange
    \/ OtherAction

Spec == Init /\ [][Next]_vars

TypeOK ==
    /\ Range(state.entities) \subseteq ApiResponseResult
    /\ Range(state.filteredEntities) \subseteq ApiResponseResult
    /\ Range(state.hiddenFeedId) \subseteq Strings
    /\ Range(state.blockedUser) \subseteq Strings
    /\ state.profanityCheck \in BOOLEAN
    /\ state.removeDuplicate \in BOOLEAN

(* ---- what the properties speak about ---- *)
IsLast(t) == lastAction.type = t

\* the feeds of a list as a set: its content, whatever the order
Content(feeds) == Range(feeds)

AuthoredBy(feeds, acct) == SelectSeq(feeds, LAMBDA f : f.acct = acct)

NotAuthoredBy(feeds, acct) == SelectSeq(feeds, LAMBDA f : f.acct # acct)

\* the last two actions were HideFeed(x), ShowFeed(x)
HideThenShow == pairStart # <<>> /\ IsLast(WALL_SHOW_FEED)

\* the last two actions were BlockUser(x), UnblockUser(x)
BlockThenUnblock == pairStart # <<>> /\ IsLast(WALL_UNBLOCK_USER)

(* C1: a failed search, a failed pagination and an action of a type the    *)
(* reducer does not recognise return the state with all six fields as they *)
(* were.                                                                   *)
C1_FailAndUnknownKeepState ==
    (IsLast(WALL_SEARCH_COMPLETE_FAIL) \/ IsLast(WALL_PAGINATION_COMPLETE_FAIL)
        \/ IsLast(OTHER_ACTION))
    => /\ state.entities = prevState.entities
       /\ state.filteredEntities = prevState.filteredEntities
       /\ state.hiddenFeedId = prevState.hiddenFeedId
       /\ state.blockedUser = prevState.blockedUser
       /\ state.profanityCheck = prevState.profanityCheck
       /\ state.removeDuplicate = prevState.removeDuplicate

C1_Witness ==
    /\ IsLast(WALL_SEARCH_COMPLETE_FAIL)
    /\ state.filteredEntities # <<>>
    /\ state.hiddenFeedId # <<>>
    /\ state.blockedUser # <<>>
    /\ state.profanityCheck

C3_PaginationPrepends ==
    IsLast(WALL_PAGINATION_COMPLETE_SUCCESS) =>
        LET posts == lastAction.payload
        IN  /\ state.entities = posts \o prevState.entities
            /\ (/\ prevState.blockedUser = <<>>
                /\ ~prevState.profanityCheck
                /\ ~prevState.removeDuplicate)
               => state.filteredEntities = posts \o prevState.filteredEntities

C3_Witness ==
    /\ IsLast(WALL_PAGINATION_COMPLETE_SUCCESS)
    /\ lastAction.payload # <<>>
    /\ prevState.filteredEntities # <<>>
    /\ prevState.filteredEntities # lastAction.payload
    /\ prevState.blockedUser = <<>>
    /\ ~prevState.profanityCheck
    /\ ~prevState.removeDuplicate

(* C4, as claimed: for every id, HideFeed(id) immediately followed by      *)
(* ShowFeed(id) leaves filteredEntities with the content it had before the *)
(* HideFeed and hiddenFeedId with the value it had before the HideFeed.    *)
C4_HideShowRestoresAlways ==
    HideThenShow =>
        /\ Content(state.filteredEntities) = Content(pairStart[1].filteredEntities)
        /\ state.hiddenFeedId = pairStart[1].hiddenFeedId

(* C4, amended: HideFeed(id) then ShowFeed(id) restores the content of     *)
(* filteredEntities when id was the id of a feed in filteredEntities (or   *)
(* of no feed in entities), and restores hiddenFeedId when id was not in   *)
(* hiddenFeedId already.                                                   *)
C4_HideShowRestores ==
    HideThenShow =>
        LET id == lastAction.payload
            before == pairStart[1]
        IN  /\ (id \in Ids(before.filteredEntities) \/ id \notin Ids(before.entities))
               => Content(state.filteredEntities) = Content(before.filteredEntities)
            /\ ~Contains(before.hiddenFeedId, id)
               => state.hiddenFeedId = before.hiddenFeedId

C4_Witness ==
    /\ HideThenShow
    /\ lastAction.payload \in Ids(pairStart[1].filteredEntities)
    /\ ~Contains(pairStart[1].hiddenFeedId, lastAction.payload)
    /\ pairStart[1].hiddenFeedId # <<>>
    /\ lastAction.payload \notin Ids(prevState.filteredEntities)
    /\ Len(state.filteredEntities) > 1

(* C5: BlockUser(u) removes from filteredEntities every feed authored by   *)
(* u, and the feeds of filteredEntities authored by other accounts are     *)
(* all still there afterwards, in the same relative order.                 *)
C5_BlockRemovesOnlyThatUser ==
    IsLast(WALL_BLOCK_USER) =>
        LET u == lastAction.payload
        IN  /\ AuthoredBy(state.filteredEntities, u) = <<>>
            /\ NotAuthoredBy(state.filteredEntities, u)
                   = NotAuthoredBy(prevState.filteredEntities, u)

(* C6, as claimed: BlockUser(a) followed by UnblockUser(a) brings none of  *)
(* a's feeds back into filteredEntities and leaves a in blockedUser, and   *)
(* UnblockUser never makes the blocked-user set smaller.                   *)
C6_UnblockRestoresNothing ==
    /\ BlockThenUnblock =>
          /\ AuthoredBy(state.filteredEntities, lastAction.payload) = <<>>
          /\ Contains(state.blockedUser, lastAction.payload)
    /\ IsLast(WALL_UNBLOCK_USER) =>
          /\ Range(prevState.blockedUser) \subseteq Range(state.blockedUser)
          /\ Len(state.blockedUser) >= Len(prevState.blockedUser)

(* C6, amended: BlockUser(a) followed by UnblockUser(a) brings every feed  *)
(* of a that is in entities back into filteredEntities, and leaves         *)
(* blockedUser equal to hiddenFeedId without a, so that a is not in        *)
(* blockedUser and the blocked users that are not hidden ids are dropped.  *)
C6_UnblockRestoresFeedsAndResetsBlocked ==
    BlockThenUnblock =>
        LET a == lastAction.payload
        IN  /\ Range(AuthoredBy(state.entities, a)) \subseteq Range(state.filteredEntities)
            /\ ~Contains(state.blockedUser, a)
            /\ state.blockedUser = removeId(state.hiddenFeedId, a)
            /\ \A u \in Range(prevState.blockedUser) :
                   ~Contains(state.hiddenFeedId, u) => ~Contains(state.blockedUser, u)

C6_Witness ==
    /\ BlockThenUnblock
    /\ AuthoredBy(pairStart[1].filteredEntities, lastAction.payload) # <<>>
    /\ AuthoredBy(prevState.filteredEntities, lastAction.payload) = <<>>
    /\ AuthoredBy(state.filteredEntities, lastAction.payload) # <<>>
    /\ pairStart[1].blockedUser # <<>>
    /\ state.blockedUser = <<>>

(* C7: every id of a feed in filteredEntities is the id of a feed in       *)
(* entities.                                                               *)
C7_FilteredWithinEntities == Ids(state.filteredEntities) \subseteq Ids(state.entities)

C7_Witness ==
    /\ state.filteredEntities # <<>>
    /\ Ids(state.filteredEntities) # Ids(state.entities)
    /\ IsLast(WALL_PAGINATION_COMPLETE_SUCCESS)
    /\ lastAction.payload # <<>>
    /\ Ids(lastAction.payload) \subseteq Ids(state.filteredEntities)
    /\ ~ (Ids(lastAction.payload) \subseteq Ids(prevState.entities))

(* C8: no id in hiddenFeedId is the id of a feed in filteredEntities.      *)
C8_HiddenNotShown ==
    \A id \in Range(state.hiddenFeedId) : id \notin Ids(state.filteredEntities)

(* C9: no feed in filteredEntities is authored by an account in            *)
(* blockedUser.                                                            *)
C9_BlockedNotShown ==
    \A i \in 1..Len(state.filteredEntities) :
        ~Contains(state.blockedUser, state.filteredEntities[i].acct)

\* no feed of entities is authored by acct
AuthorOfNone(s, acct) == AuthoredBy(s.entities, acct) = <<>>

(* C10, as claimed: HideFeed(id) with id not in filteredEntities,          *)
(* ShowFeed(id) with id not in entities, and BlockUser(u) and              *)
(* UnblockUser(u) with u the author of no feed leave all six fields as     *)
(* they were.                                                              *)
C10_NonexistentIdKeepsState ==
    LET x == lastAction.payload
    IN  (\/ IsLast(WALL_HIDE_FEED) /\ x \notin Ids(prevState.filteredEntities)
         \/ IsLast(WALL_SHOW_FEED) /\ x \notin Ids(prevState.entities)
         \/ IsLast(WALL_BLOCK_USER) /\ AuthorOfNone(prevState, x)
         \/ IsLast(WALL_UNBLOCK_USER) /\ AuthorOfNone(prevState, x))
        => state = prevState

(* C10, amended: these operations leave entities, profanityCheck and       *)
(* removeDuplicate as they were, but not the id lists: HideFeed(id) with   *)
(* id not in filteredEntities appends id to hiddenFeedId, ShowFeed(id)     *)
(* with id not in entities removes id from hiddenFeedId, both leaving      *)
(* filteredEntities and blockedUser alone; BlockUser(u) with u the author  *)
(* of no feed appends u to blockedUser, leaves hiddenFeedId alone and      *)
(* takes out of filteredEntities only feeds of accounts blocked before;    *)
(* UnblockUser(u) with u the author of no feed sets blockedUser to         *)
(* hiddenFeedId without u and leaves filteredEntities and hiddenFeedId     *)
(* alone.                                                                  *)
C10_NonexistentIdKeepsFeeds ==
    LET x == lastAction.payload
        SameBut(fields) ==
            \A f \in {"entities", "filteredEntities", "hiddenFeedId", "blockedUser",
                      "profanityCheck", "removeDuplicate"} \ fields :
                state[f] = prevState[f]
    IN  /\ (IsLast(WALL_HIDE_FEED) /\ x \notin Ids(prevState.filteredEntities))
           => /\ SameBut({"hiddenFeedId"})
              /\ state.hiddenFeedId = Append(prevState.hiddenFeedId, x)
        /\ (IsLast(WALL_SHOW_FEED) /\ x \notin Ids(prevState.entities))
           => /\ SameBut({"hiddenFeedId"})
              /\ state.hiddenFeedId = removeId(prevState.hiddenFeedId, x)
        /\ (IsLast(WALL_BLOCK_USER) /\ AuthorOfNone(prevState, x))
           => /\ SameBut({"blockedUser", "filteredEntities"})
              /\ state.blockedUser = Append(prevState.blockedUser, x)
              /\ state.filteredEntities
                     = accountExclusion(prevState.filteredEntities, prevState.blockedUser)
        /\ (IsLast(WALL_UNBLOCK_USER) /\ AuthorOfNone(prevState, x))
           => /\ SameBut({"blockedUser"})
              /\ state.blockedUser = removeId(prevState.hiddenFeedId, x)

C10_Witness ==
    /\ IsLast(WALL_HIDE_FEED)
    /\ lastAction.payload \notin Ids(prevState.filteredEntities)
    /\ prevState.filteredEntities # <<>>
    /\ prevState.hiddenFeedId # <<>>
    /\ prevState.hiddenFeedId # <<lastAction.payload>>
    /\ state # prevState

\* the last two actions were both ProfanityToggle
ProfanityTwice == pairStart # <<>> /\ IsLast(WALL_PROFANITY_CHANGE_ACTION)

(* C11: two ProfanityToggle in a row, whatever their payloads, leave       *)
(* filteredEntities as the first one alone left it.                        *)
C11_ProfanityTwiceAsOnce ==
    ProfanityTwice =>
        /\ state.filteredEntities = prevState.filteredEntities
        /\ state.filteredEntities = profanityFilter(pairStart[1].filteredEntities)

C11_Witness ==
    /\ ProfanityTwice
    /\ pairStart[1].filteredEntities # prevState.filteredEntities
    /\ prevState.filteredEntities # <<>>
    /\ prevState.profanityCheck
    /\ ~state.profanityCheck
    /\ state.entities # state.filteredEntities

\* the last two actions were both DuplicateToggle
DuplicateTwice == pairStart # <<>> /\ IsLast(WALL_REMOVE_DUPLICATE_CHANGE_ACTION)

(* C12: ProfanityToggle(flag) sets profanityCheck to flag and replaces     *)
(* filteredEntities by profanityFilter of it, and DuplicateToggle(flag)    *)
(* sets removeDuplicate to flag and replaces filteredEntities by           *)
(* removeDuplicateCheck of it, for both values of flag; so a filter        *)
(* toggled on and then off brings back none of the feeds it removed.       *)
C12_TogglesFilterCurrentFeeds ==
    /\ IsLast(WALL_PROFANITY_CHANGE_ACTION) =>
          /\ state.profanityCheck = lastAction.payload
          /\ state.filteredEntities = profanityFilter(prevState.filteredEntities)
    /\ IsLast(WALL_REMOVE_DUPLICATE_CHANGE_ACTION) =>
          /\ state.removeDuplicate = lastAction.payload
          /\ state.filteredEntities = removeDuplicateCheck(prevState.filteredEntities)
    /\ (ProfanityTwice /\ prevState.profanityCheck /\ ~state.profanityCheck) =>
          /\ state.filteredEntities = prevState.filteredEntities
          /\ \A i \in 1..Len(state.filteredEntities) : ~state.filteredEntities[i].profane
    /\ (DuplicateTwice /\ prevState.removeDuplicate /\ ~state.removeDuplicate) =>
          /\ state.filteredEntities = prevState.filteredEntities
          /\ Cardinality(Ids(state.filteredEntities)) = Len(state.filteredEntities)

C12_Witness ==
    /\ DuplicateTwice
    /\ prevState.removeDuplicate
    /\ ~state.removeDuplicate
    /\ Len(pairStart[1].filteredEntities) > Len(state.filteredEntities)
    /\ state.filteredEntities # <<>>

(* C13: on a successful pagination the candidates put before               *)
(* filteredEntities are profanityFilter of the raw page when               *)
(* profanityCheck is on (the account exclusion is discarded), and          *)
(* accountExclusion of the page with blockedUser when it is off.           *)
C13_PaginationCandidates ==
    IsLast(WALL_PAGINATION_COMPLETE_SUCCESS) =>
        LET posts == lastAction.payload
            candidates == IF prevState.profanityCheck THEN profanityFilter(posts)
                          ELSE accountExclusion(posts, prevState.blockedUser)
            combined == candidates \o prevState.filteredEntities
        IN  state.filteredEntities
                = IF prevState.removeDuplicate THEN removeDuplicateCheck(combined)
                  ELSE combined

C13_Witness ==
    /\ IsLast(WALL_PAGINATION_COMPLETE_SUCCESS)
    /\ prevState.profanityCheck
    /\ ~prevState.removeDuplicate
    /\ prevState.filteredEntities # <<>>
    /\ \E i \in 1..Len(lastAction.payload) :
           /\ Contains(prevState.blockedUser, lastAction.payload[i].acct)
           /\ ~lastAction.payload[i].profane
           /\ state.filteredEntities[1] = lastAction.payload[i]

(* C14: after BlockUser(u) blockedUser is the previous blockedUser with u  *)
(* appended, filteredEntities holds no feed of any account in the new      *)
(* blockedUser, and it is derived from the previous filteredEntities, not  *)
(* from entities.                                                          *)
C14_BlockExcludesWholeList ==
    IsLast(WALL_BLOCK_USER) =>
        /\ state.blockedUser = Append(prevState.blockedUser, lastAction.payload)
        /\ \A i \in 1..Len(state.filteredEntities) :
               ~Contains(state.blockedUser, state.filteredEntities[i].acct)
        /\ state.filteredEntities
               = SelectSeq(prevState.filteredEntities,
                           LAMBDA f : ~Contains(state.blockedUser, f.acct))

C14_Witness ==
    /\ IsLast(WALL_BLOCK_USER)
    /\ prevState.blockedUser # <<>>
    /\ \E i \in 1..Len(prevState.filteredEntities) :
           /\ Contains(prevState.blockedUser, prevState.filteredEntities[i].acct)
           /\ prevState.filteredEntities[i].acct # lastAction.payload
    /\ \E i \in 1..Len(state.entities) :
           /\ ~Contains(state.blockedUser, state.entities[i].acct)
           /\ ~Contains(state.filteredEntities, state.entities[i])

(* C15: after UnblockUser(u) blockedUser is the previous hiddenFeedId      *)
(* without u, whatever blockedUser was; hiddenFeedId is unchanged and      *)
(* filteredEntities is accountInclusion(entities, filteredEntities, u).    *)
C15_UnblockTakesHiddenIds ==
    IsLast(WALL_UNBLOCK_USER) =>
        LET u == lastAction.payload
        IN  /\ state.blockedUser = SelectSeq(prevState.hiddenFeedId, LAMBDA x : x # u)
            /\ state.hiddenFeedId = prevState.hiddenFeedId
            /\ state.filteredEntities
                   = accountInclusion(prevState.entities, prevState.filteredEntities, u)

C15_Witness ==
    /\ IsLast(WALL_UNBLOCK_USER)
    /\ Contains(prevState.hiddenFeedId, lastAction.payload)
    /\ Contains(prevState.blockedUser, lastAction.payload)
    /\ state.blockedUser # <<>>
    /\ state.blockedUser # prevState.hiddenFeedId
    /\ Range(state.blockedUser) # Range(prevState.blockedUser) \ {lastAction.payload}
    /\ state.filteredEntities # prevState.filteredEntities

(* C16: every action changes its own fields only.  The two success actions *)
(* leave hiddenFeedId, blockedUser and the flags alone; HideFeed and       *)
(* ShowFeed change filteredEntities and hiddenFeedId only; BlockUser and   *)
(* UnblockUser filteredEntities and blockedUser only; ProfanityToggle      *)
(* filteredEntities and profanityCheck only; DuplicateToggle               *)
(* filteredEntities and removeDuplicate only; entities changes on the two  *)
(* success actions only.                                                   *)
C16_ActionsChangeOwnFields ==
    LET Keeps(fields) == \A f \in fields : state[f] = prevState[f]
    IN  /\ (IsLast(WALL_SEARCH_COMPLETE_SUCCESS) \/ IsLast(WALL_PAGINATION_COMPLETE_SUCCESS))
           => Keeps({"hiddenFeedId", "blockedUser", "profanityCheck", "removeDuplicate"})
        /\ (IsLast(WALL_HIDE_FEED) \/ IsLast(WALL_SHOW_FEED))
           => Keeps({"entities", "blockedUser", "profanityCheck", "removeDuplicate"})
        /\ (IsLast(WALL_BLOCK_USER) \/ IsLast(WALL_UNBLOCK_USER))
           => Keeps({"entities", "hiddenFeedId", "profanityCheck", "removeDuplicate"})
        /\ IsLast(WALL_PROFANITY_CHANGE_ACTION)
           => Keeps({"entities", "hiddenFeedId", "blockedUser", "removeDuplicate"})
        /\ IsLast(WALL_REMOVE_DUPLICATE_CHANGE_ACTION)
           => Keeps({"entities", "hiddenFeedId", "blockedUser", "profanityCheck"})
        /\ state.entities # prevState.entities
           => (IsLast(WALL_SEARCH_COMPLETE_SUCCESS)
                  \/ IsLast(WALL_PAGINATION_COMPLETE_SUCCESS))

C16_Witness ==
    /\ IsLast(WALL_BLOCK_USER)
    /\ state.filteredEntities # prevState.filteredEntities
    /\ state.entities # <<>>
    /\ state.hiddenFeedId # <<>>
    /\ state.hiddenFeedId # prevState.blockedUser
    /\ state.profanityCheck
    /\ ~state.removeDuplicate

\* how often x occurs in the list q
Occurrences(q, x) == Cardinality({ i \in 1..Len(q) : q[i] = x })

(* C17: HideFeed(id) appends id at the end of hiddenFeedId without looking *)
(* whether it is there already: the list grows by exactly one, id occurs   *)
(* once more than before, and no feed with that id is left in              *)
(* filteredEntities.                                                       *)
C17_HideAppendsEveryTime ==
    IsLast(WALL_HIDE_FEED) =>
        LET id == lastAction.payload
        IN  /\ Len(state.hiddenFeedId) = Len(prevState.hiddenFeedId) + 1
            /\ state.hiddenFeedId[Len(state.hiddenFeedId)] = id
            /\ SubSeq(state.hiddenFeedId, 1, Len(prevState.hiddenFeedId))
                   = prevState.hiddenFeedId
            /\ Occurrences(state.hiddenFeedId, id)
                   = Occurrences(prevState.hiddenFeedId, id) + 1
            /\ id \notin Ids(state.filteredEntities)

C17_Witness ==
    /\ IsLast(WALL_HIDE_FEED)
    /\ Contains(prevState.hiddenFeedId, lastAction.payload)
    /\ lastAction.payload \in Ids(prevState.filteredEntities)
    /\ Occurrences(state.hiddenFeedId, lastAction.payload) = Len(state.hiddenFeedId)
    /\ Len(state.hiddenFeedId) > 1

(* C18: while profanityCheck is on, filteredEntities holds no feed that    *)
(* profanityFilter would remove.                                           *)
C18_NoProfanityWhileChecked ==
    state.profanityCheck => profanityFilter(state.filteredEntities) = state.filteredEntities

(* C19: while removeDuplicate is on, filteredEntities holds no two feeds   *)
(* that removeDuplicateCheck takes for duplicates.                         *)
C19_NoDuplicatesWhileChecked ==
    state.removeDuplicate =>
        /\ removeDuplicateCheck(state.filteredEntities) = state.filteredEntities
        /\ \A i, j \in 1..Len(state.filteredEntities) :
               state.filteredEntities[i].id = state.filteredEntities[j].id => i = j

C19_Witness ==
    /\ state.removeDuplicate
    /\ IsLast(WALL_SHOW_FEED)
    /\ state.filteredEntities # <<>>
    /\ Occurrences(state.entities, state.filteredEntities[1]) > 1
    /\ state.filteredEntities # prevState.filteredEntities
====
